---- MODULE Spec2Model ----
(***************************************************************************)
(* A model of fuzzball.js (src/fuzzball.js): the ratio-family scorers and  *)
(* the extract ranking pipeline.                                           *)
(*                                                                         *)
(* A JavaScript string is a sequence of character codes (naturals), so     *)
(* that the default sort of tokens (by code unit) and the character        *)
(* classes of the preprocessing are what they are in the program.  A value *)
(* handed to a scorer is a record [t, s]: t = "string" with its characters *)
(* s, or any other type with s = << >>.                                    *)
(***************************************************************************)
EXTENDS Integers, Sequences, FiniteSets, TLC

(***************************************************************************)
(* Bounds of the model.                                                    *)
(***************************************************************************)
MaxLen == 3

(***************************************************************************)
(* Characters: space, 'a', 'b'.                                            *)
(***************************************************************************)
Alphabet == {32, 97, 98}

RECURSIVE StringsOfLen(_)
StringsOfLen(n) ==
    IF n = 0 THEN {<< >>}
    ELSE {Append(s, c) : s \in StringsOfLen(n - 1), c \in Alphabet}

Strings == UNION {StringsOfLen(n) : n \in 0..MaxLen}

Str(s) == [t |-> "string", s |-> s]
NotAString == [t |-> "number", s |-> << >>]

(***************************************************************************)
(* Optional values: << >> is undefined, <<x>> is x.                        *)
(***************************************************************************)
Undefined == << >>
Some(x) == <<x>>

Max2(x, y) == IF x >= y THEN x ELSE y
Min2(x, y) == IF x <= y THEN x ELSE y

RECURSIVE MaxOf(_)
MaxOf(seq) ==
    IF Len(seq) = 1 THEN seq[1] ELSE Max2(seq[1], MaxOf(Tail(seq)))

(***************************************************************************)
(* lib/utils.js: full_process.  Lowercases, turns every run of             *)
(* non-alphanumeric characters into one space and trims; with force_ascii  *)
(* the characters outside ASCII are removed first.  A value that is not a  *)
(* string gives the empty string.                                          *)
(***************************************************************************)
IsAlnum(c) == c \in 97..122 \/ c \in 65..90 \/ c \in 48..57
ToLower(c) == IF c \in 65..90 THEN c + 32 ELSE c
IsSpace(c) == c = 32 \/ c \in 9..13

SetMin(S) == CHOOSE x \in S : \A y \in S : x <= y
SetMax(S) == CHOOSE x \in S : \A y \in S : x >= y

\* The elements of s whose index is in Keep, in order.
SelectIndex(s, Keep) ==
    LET kept == SelectSeq([i \in DOMAIN s |-> <<i, s[i]>>],
                          LAMBDA p : p[1] \in Keep)
    IN [k \in DOMAIN kept |-> kept[k][2]] \o << >>

StripNonAscii(s) == SelectSeq(s, LAMBDA c : c <= 127)

\* Every run of non-alphanumeric characters becomes one space.
Collapse(s) ==
    LET lowered == [i \in DOMAIN s |->
                      IF IsAlnum(s[i]) THEN ToLower(s[i]) ELSE 32]
        FirstOfRun == {i \in DOMAIN s :
                          IsAlnum(s[i]) \/ i = 1 \/ IsAlnum(s[i - 1])}
    IN SelectIndex(lowered, FirstOfRun)

Trim(s) ==
    LET solid == {i \in DOMAIN s : ~IsSpace(s[i])}
    IN IF solid = {} THEN << >> ELSE SubSeq(s, SetMin(solid), SetMax(solid))

full_process(v, force_ascii) ==
    IF v.t # "string" THEN << >>
    ELSE Trim(Collapse(IF force_ascii THEN StripNonAscii(v.s) ELSE v.s))

(***************************************************************************)
(* lib/utils.js: validate.  A non-empty string.                            *)
(***************************************************************************)
_validate(v) == v.t = "string" /\ Len(v.s) > 0

(***************************************************************************)
(* Tokens: the maximal runs of non-whitespace, left to right.              *)
(***************************************************************************)
Split(s) ==
    LET TokenStart(i) == ~IsSpace(s[i]) /\ (i = 1 \/ IsSpace(s[i - 1]))
        starts == SelectSeq([i \in DOMAIN s |-> i], TokenStart)
        TokenEnd(i) ==
            SetMin({j \in i..Len(s) : j = Len(s) \/ IsSpace(s[j + 1])})
    IN [k \in DOMAIN starts |-> SubSeq(s, starts[k], TokenEnd(starts[k]))]
       \o << >>

Range(seq) == {seq[i] : i \in DOMAIN seq}

RECURSIVE _uniq(_)
_uniq(seq) ==
    IF seq = << >> THEN << >>
    ELSE LET init == _uniq(SubSeq(seq, 1, Len(seq) - 1))
             last == seq[Len(seq)]
         IN IF last \in Range(init) THEN init ELSE Append(init, last)

(***************************************************************************)
(* The order of Array.prototype.sort with no comparator: by code unit,     *)
(* a proper prefix first.                                                  *)
(***************************************************************************)
StrLess(x, y) ==
    LET diff == {i \in 1..Min2(Len(x), Len(y)) : x[i] # y[i]}
    IN IF diff = {} THEN Len(x) < Len(y)
       ELSE x[SetMin(diff)] < y[SetMin(diff)]

RECURSIVE InsertSorted(_, _)
InsertSorted(tok, sorted) ==
    IF sorted = << >> THEN <<tok>>
    ELSE IF StrLess(tok, sorted[1]) THEN <<tok>> \o sorted
    ELSE <<sorted[1]>> \o InsertSorted(tok, Tail(sorted))

RECURSIVE SortTokens(_)
SortTokens(toks) ==
    IF toks = << >> THEN << >>
    ELSE InsertSorted(toks[1], SortTokens(Tail(toks)))

RECURSIVE Join(_)
Join(toks) ==
    IF toks = << >> THEN << >>
    ELSE IF Len(toks) = 1 THEN toks[1]
    ELSE toks[1] \o <<32>> \o Join(Tail(toks))

tokenize(s) == _uniq(Split(s))

process_and_sort(s) == Trim(Join(SortTokens(Split(s))))

(***************************************************************************)
(* lib/utils.js: clone_and_set_option_defaults.  options_p is the object   *)
(* the caller supplies: a record holding only the keys the caller set.     *)
(* The clone holds every key the scorers read; full_process and            *)
(* force_ascii default to true, a number that was not supplied is          *)
(* Undefined.                                                              *)
(***************************************************************************)
Get(o, k, d) == IF k \in DOMAIN o THEN o[k] ELSE d

_clone_and_set_option_defaults(options_p) ==
    [full_process |-> Get(options_p, "full_process", TRUE),
     force_ascii  |-> Get(options_p, "force_ascii", TRUE),
     subcost      |-> Get(options_p, "subcost", Undefined),
     ratio_alg    |-> Get(options_p, "ratio_alg", "default"),
     useCollator  |-> Get(options_p, "useCollator", FALSE),
     astral       |-> Get(options_p, "astral", FALSE),
     trySimple    |-> Get(options_p, "trySimple", FALSE),
     partial      |-> Get(options_p, "partial", FALSE),
     proc_sorted  |-> Get(options_p, "proc_sorted", FALSE),
     tokens       |-> Get(options_p, "tokens", Undefined)]

(***************************************************************************)
(* lib/leven.js and lib/iLeven.js: the edit distance with insertion and    *)
(* deletion cost 1 and substitution cost subcost, row by row.  With        *)
(* useCollator two characters are equal when the collator (sensitivity     *)
(* "base") says so: case is ignored.  A row is a sequence whose k-th       *)
(* element is the cell of column k - 1.                                    *)
(***************************************************************************)
CharEq(c, d, useCollator) ==
    IF useCollator THEN ToLower(c) = ToLower(d) ELSE c = d

\* The row of character c from the row before it: a cell is the least of
\* the cell above plus 1, the cell to the left plus 1, and the cell above
\* left plus the cost of matching c with b[j].
LevRow(prev, c, b, sub, coll, i) ==
    LET d == [j \in 0..Len(b) |->
                IF j = 0 THEN i
                ELSE Min2(prev[j + 1] + 1,
                          prev[j] + (IF CharEq(c, b[j], coll) THEN 0 ELSE sub))]
        cells == [j \in 1..(Len(b) + 1) |-> d[j - 1]] \o << >>
    IN [k \in 1..(Len(b) + 1) |->
          SetMin({cells[j] + (k - j) : j \in 1..k})] \o << >>

\* The row after the characters a[lo..hi], from the row before a[lo]; the
\* range is halved so that the nesting stays shallow on long strings.
RECURSIVE LevRows(_, _, _, _, _, _, _)
LevRows(a, b, sub, coll, lo, hi, prev) ==
    IF lo > hi THEN prev
    ELSE IF lo = hi THEN LevRow(prev, a[lo], b, sub, coll, lo)
    ELSE LET mid == (lo + hi) \div 2
             row == LevRows(a, b, sub, coll, lo, mid, prev)
         IN IF Len(row) = Len(b) + 1
            THEN LevRows(a, b, sub, coll, mid + 1, hi, row)
            ELSE row

_leven(str1, str2, options) ==
    LevRows(str1, str2, options.subcost[1], options.useCollator, 1, Len(str1),
            [k \in 1..(Len(str2) + 1) |-> k - 1] \o << >>)[Len(str2) + 1]

\* Over code points; the characters of the model are all in the basic plane.
_iLeven(str1, str2, options) == _leven(str1, str2, options)

_toArray(s) == s

(***************************************************************************)
(* difflib.SequenceMatcher(null, a, b), with autojunk left at its default. *)
(* Indexes are the library's: from 0, ranges half-open.                    *)
(***************************************************************************)
AutojunkMin == 200

Occurrences(b, c) == Cardinality({j \in DOMAIN b : b[j] = c})

\* b's popular characters, which are left out of b2j.
Popular(b) ==
    IF Len(b) >= AutojunkMin
    THEN {c \in Range(b) : Occurrences(b, c) > (Len(b) \div 100) + 1}
    ELSE {}

\* a[i..i+k) = b[j..j+k), on characters that b2j holds.
Run(a, b, pop, i, j, k) ==
    \A t \in 0..(k - 1) : a[i + t + 1] = b[j + t + 1] /\ b[j + t + 1] \notin pop

RECURSIVE ExtendLeft(_, _, _, _, _)
ExtendLeft(a, b, alo, blo, m) ==
    IF m[1] > alo /\ m[2] > blo /\ a[m[1]] = b[m[2]]
    THEN ExtendLeft(a, b, alo, blo, <<m[1] - 1, m[2] - 1, m[3] + 1>>)
    ELSE m

RECURSIVE ExtendRight(_, _, _, _, _)
ExtendRight(a, b, ahi, bhi, m) ==
    IF m[1] + m[3] < ahi /\ m[2] + m[3] < bhi
       /\ a[m[1] + m[3] + 1] = b[m[2] + m[3] + 1]
    THEN ExtendRight(a, b, ahi, bhi, <<m[1], m[2], m[3] + 1>>)
    ELSE m

\* The longest run, the earliest in a and then in b; then extended on both
\* sides over equal characters (no character is junk).
find_longest_match(a, b, pop, alo, ahi, blo, bhi) ==
    LET runs == {m \in (alo..(ahi - 1)) \X (blo..(bhi - 1))
                          \X (1..Min2(ahi - alo, bhi - blo)) :
                    /\ m[1] + m[3] <= ahi
                    /\ m[2] + m[3] <= bhi
                    /\ Run(a, b, pop, m[1], m[2], m[3])}
        Better(m, n) ==
            \/ m[3] > n[3]
            \/ m[3] = n[3] /\ m[1] < n[1]
            \/ m[3] = n[3] /\ m[1] = n[1] /\ m[2] <= n[2]
        best == IF runs = {} THEN <<alo, blo, 0>>
                ELSE CHOOSE m \in runs : \A n \in runs : Better(m, n)
    IN ExtendRight(a, b, ahi, bhi, ExtendLeft(a, b, alo, blo, best))

RECURSIVE MatchRec(_, _, _, _, _, _, _)
MatchRec(a, b, pop, alo, ahi, blo, bhi) ==
    LET x == find_longest_match(a, b, pop, alo, ahi, blo, bhi)
        i == x[1]
        j == x[2]
        k == x[3]
    IN IF k = 0 THEN << >>
       ELSE (IF alo < i /\ blo < j
             THEN MatchRec(a, b, pop, alo, i, blo, j) ELSE << >>)
            \o <<x>>
            \o (IF i + k < ahi /\ j + k < bhi
                THEN MatchRec(a, b, pop, i + k, ahi, j + k, bhi) ELSE << >>)

\* Adjacent blocks are merged into one.
RECURSIVE CollapseBlocks(_, _)
CollapseBlocks(blocks, cur) ==
    IF blocks = << >> THEN (IF cur[3] > 0 THEN <<cur>> ELSE << >>)
    ELSE LET n == blocks[1]
         IN IF cur[1] + cur[3] = n[1] /\ cur[2] + cur[3] = n[2]
            THEN CollapseBlocks(Tail(blocks), <<cur[1], cur[2], cur[3] + n[3]>>)
            ELSE (IF cur[3] > 0 THEN <<cur>> ELSE << >>)
                 \o CollapseBlocks(Tail(blocks), n)

getMatchingBlocks(a, b) ==
    CollapseBlocks(MatchRec(a, b, Popular(b), 0, Len(a), 0, Len(b)), <<0, 0, 0>>)
    \o <<(<<Len(a), Len(b), 0>>)>>

RECURSIVE SumSizes(_)
SumSizes(blocks) ==
    IF blocks = << >> THEN 0 ELSE blocks[1][3] + SumSizes(Tail(blocks))

\* Math.round(x / y) for x >= 0, y > 0: halves round up.
Round(x, y) == (2 * x + y) \div (2 * y)

\* Math.round(100 * m.ratio()), m.ratio() = 2 * matches / (la + lb).
difflib_ratio100(a, b) ==
    IF Len(a) + Len(b) = 0 THEN 100
    ELSE Round(200 * SumSizes(getMatchingBlocks(a, b)), Len(a) + Len(b))

(***************************************************************************)
(* Main scoring code.  The strings are character sequences here.           *)
(***************************************************************************)
Subcost(options, default) ==
    IF options.subcost = Undefined THEN default ELSE options.subcost[1]

\* _ratio with the distance taken for the similarity.
_ratio_distance(str1, str2, options) ==
    IF ~_validate(Str(str1)) THEN 0
    ELSE IF ~_validate(Str(str2)) THEN 0
    ELSE IF options.ratio_alg = "difflib"
         THEN 100 - difflib_ratio100(str1, str2)
    ELSE LET o == [options EXCEPT !.subcost = Some(Subcost(options, 2))]
         IN Round(100 * _leven(str1, str2, o), Len(str1) + Len(str2))

\* _ratio with lensum taken from str1 alone.
_ratio_lensum1(str1, str2, options) ==
    IF ~_validate(Str(str1)) THEN 0
    ELSE IF ~_validate(Str(str2)) THEN 0
    ELSE IF options.ratio_alg = "difflib" THEN difflib_ratio100(str1, str2)
    ELSE LET o == [options EXCEPT !.subcost = Some(Subcost(options, 2))]
             lensum == 2 * Len(str1)
         IN Round(100 * Max2(lensum - _leven(str1, str2, o), 0), lensum)

\* _ratio with the distance added to lensum instead of subtracted.
_ratio_plus(str1, str2, options) ==
    IF ~_validate(Str(str1)) THEN 0
    ELSE IF ~_validate(Str(str2)) THEN 0
    ELSE IF options.ratio_alg = "difflib" THEN difflib_ratio100(str1, str2)
    ELSE LET o == [options EXCEPT !.subcost = Some(Subcost(options, 2))]
             lensum == Len(str1) + Len(str2)
         IN Round(100 * (lensum + _leven(str1, str2, o)), lensum)

_ratio(str1, str2, options) ==
    IF ~_validate(Str(str1)) THEN 0
    ELSE IF ~_validate(Str(str2)) THEN 0
    ELSE IF options.ratio_alg = "difflib" THEN difflib_ratio100(str1, str2)
    ELSE LET o == [options EXCEPT !.subcost = Some(Subcost(options, 2))]
             levdistance == IF o.astral THEN _iLeven(str1, str2, o)
                            ELSE _leven(str1, str2, o)
             lensum == IF o.astral
                       THEN Len(_toArray(str1)) + Len(_toArray(str2))
                       ELSE Len(str1) + Len(str2)
         IN Round(100 * (lensum - levdistance), lensum)

\* longer.substring(long_start, long_end)
Substring(s, from, to) == SubSeq(s, from + 1, Min2(to, Len(s)))

\* The score of the window of longer that a matching block lines up with
\* shorter.
WindowScore(shorter, longer, block, options) ==
    LET long_start == Max2(block[2] - block[1], 0)
    IN _ratio(shorter,
              Substring(longer, long_start, long_start + Len(shorter)),
              options)

\* 100 as soon as a window scores above 99.5, else the highest score.
BestWindow(scores) ==
    IF \E b \in DOMAIN scores : 10 * scores[b] > 995 THEN 100
    ELSE MaxOf(scores)

WindowScores(shorter, longer, blocks, options) ==
    [b \in DOMAIN blocks |->
        WindowScore(shorter, longer, blocks[b], options)] \o << >>

_partial_ratio(str1, str2, options) ==
    IF ~_validate(Str(str1)) THEN 0
    ELSE IF ~_validate(Str(str2)) THEN 0
    ELSE LET shorter == IF Len(str1) <= Len(str2) THEN str1 ELSE str2
             longer  == IF Len(str1) <= Len(str2) THEN str2 ELSE str1
         IN BestWindow(WindowScores(shorter, longer,
                                    getMatchingBlocks(shorter, longer),
                                    options))

_intersect(xs, ys) == SelectSeq(_uniq(xs), LAMBDA x : x \in Range(ys))
_difference(xs, ys) == SelectSeq(xs, LAMBDA x : x \notin Range(ys))

ratio_func(str1, str2, options) ==
    IF options.partial THEN _partial_ratio(str1, str2, options)
    ELSE _ratio(str1, str2, options)

\* The sorted intersection and the two combined strings, not trimmed.
Combined_untrimmed(sect0, sorted_1to2, sorted_2to1) ==
    <<sect0, sect0 \o <<32>> \o sorted_1to2, sect0 \o <<32>> \o sorted_2to1>>

\* sorted_sect, combined_1to2 and combined_2to1, trimmed.
Combined(sect0, sorted_1to2, sorted_2to1) ==
    <<Trim(sect0),
      Trim(sect0 \o <<32>> \o sorted_1to2),
      Trim(sect0 \o <<32>> \o sorted_2to1)>>

\* intersection.sort().join(" ")
SortJoin(toks) == Join(SortTokens(toks))

\* The highest of the pairwise ratios of the three strings of c, and of the
\* ratio of str1 and str2 when trySimple is set.
Pairwise(c, str1, str2, options) ==
    LET pairs == <<<<c[1], c[2]>>, <<c[1], c[3]>>, <<c[2], c[3]>>,
                   <<str1, str2>>>>
        n == IF options.trySimple THEN 4 ELSE 3
    IN MaxOf([i \in 1..n |->
                ratio_func(pairs[i][1], pairs[i][2], options)] \o << >>)

_token_set(str1, str2, options) ==
    LET tokens1 == IF options.tokens = Undefined THEN tokenize(str1)
                   ELSE options.tokens[1][1]
        tokens2 == IF options.tokens = Undefined THEN tokenize(str2)
                   ELSE options.tokens[1][2]
    IN Pairwise(Combined(SortJoin(_intersect(tokens1, tokens2)),
                         SortJoin(_difference(tokens1, tokens2)),
                         SortJoin(_difference(tokens2, tokens1))),
                str1, str2, options)

(***************************************************************************)
(* Public functions.  str1 and str2 are values as the caller passes them.  *)
(***************************************************************************)
Preprocess(v, options) ==
    IF options.full_process THEN Str(full_process(v, options.force_ascii)) ELSE v

distance(str1, str2, options_p) ==
    LET opts == _clone_and_set_option_defaults(options_p)
        s1 == Preprocess(str1, opts)
        s2 == Preprocess(str2, opts)
        options == [opts EXCEPT !.subcost = Some(Subcost(opts, 1))]
    IN IF options.astral THEN _iLeven(s1.s, s2.s, options)
       ELSE _leven(s1.s, s2.s, options)

\* QRatio with a shortcut for equal operands taken before the validation.
QRatio_shortcut(str1, str2, options_p) ==
    LET options == _clone_and_set_option_defaults(options_p)
        s1 == Preprocess(str1, options)
        s2 == Preprocess(str2, options)
    IN IF s1 = s2 THEN 100
       ELSE IF ~_validate(s1) THEN 0
       ELSE IF ~_validate(s2) THEN 0
       ELSE _ratio(s1.s, s2.s, options)

QRatio(str1, str2, options_p) ==
    LET options == _clone_and_set_option_defaults(options_p)
        s1 == Preprocess(str1, options)
        s2 == Preprocess(str2, options)
    IN IF ~_validate(s1) THEN 0
       ELSE IF ~_validate(s2) THEN 0
       ELSE _ratio(s1.s, s2.s, options)

partial_ratio(str1, str2, options_p) ==
    LET options == _clone_and_set_option_defaults(options_p)
        s1 == Preprocess(str1, options)
        s2 == Preprocess(str2, options)
    IN IF ~_validate(s1) THEN 0
       ELSE IF ~_validate(s2) THEN 0
       ELSE _partial_ratio(s1.s, s2.s, options)

token_set_ratio(str1, str2, options_p) ==
    LET options == _clone_and_set_option_defaults(options_p)
        s1 == Preprocess(str1, options)
        s2 == Preprocess(str2, options)
    IN IF ~_validate(s1) THEN 0
       ELSE IF ~_validate(s2) THEN 0
       ELSE _token_set(s1.s, s2.s, options)

partial_token_set_ratio(str1, str2, options_p) ==
    LET options == _clone_and_set_option_defaults(options_p)
        s1 == Preprocess(str1, options)
        s2 == Preprocess(str2, options)
    IN IF ~_validate(s1) THEN 0
       ELSE IF ~_validate(s2) THEN 0
       ELSE _token_set(s1.s, s2.s, [options EXCEPT !.partial = TRUE])

token_sort_ratio(str1, str2, options_p) ==
    LET options == _clone_and_set_option_defaults(options_p)
        s1 == Preprocess(str1, options)
        s2 == Preprocess(str2, options)
    IN IF ~_validate(s1) THEN 0
       ELSE IF ~_validate(s2) THEN 0
       ELSE IF ~options.proc_sorted
            THEN _ratio(process_and_sort(s1.s), process_and_sort(s2.s), options)
            ELSE _ratio(s1.s, s2.s, options)

partial_token_sort_ratio(str1, str2, options_p) ==
    LET opts == _clone_and_set_option_defaults(options_p)
        s1 == Preprocess(str1, opts)
        s2 == Preprocess(str2, opts)
        options == [opts EXCEPT !.partial = TRUE]
    IN IF ~_validate(s1) THEN 0
       ELSE IF ~_validate(s2) THEN 0
       ELSE IF ~options.proc_sorted
            THEN _partial_ratio(process_and_sort(s1.s), process_and_sort(s2.s),
                                options)
            ELSE _partial_ratio(s1.s, s2.s, options)

(***************************************************************************)
(* WRatio.  unbase_scale and partial_scale are in hundredths (.95, .90,    *)
(* .6), and the scores are compared in ten-thousandths, so that a score    *)
(* times its scales is an integer; Math.round is taken of the maximum.     *)
(***************************************************************************)
unbase_scale == 95

\* WRatio with unbase_scale applied to the base ratio too.
WRatio_scaled_base(str1, str2, options_p) ==
    LET opts == _clone_and_set_option_defaults(options_p)
        s1 == Preprocess(str1, opts)
        s2 == Preprocess(str2, opts)
        options == [opts EXCEPT !.full_process = FALSE]
    IN IF ~_validate(s1) THEN 0
       ELSE IF ~_validate(s2) THEN 0
       ELSE Round(MaxOf(<<_ratio(s1.s, s2.s, options) * unbase_scale * 100,
                          token_sort_ratio(s1, s2, options) * unbase_scale * 100,
                          token_set_ratio(s1, s2, options) * unbase_scale * 100>>),
                  10000)

\* The weighted maximum with the partial scores scaled by 0.9 whatever the
\* lengths.
Weighted_ninety(s1, s2, options, base) ==
    IF ~(2 * Max2(Len(s1.s), Len(s2.s)) < 3 * Min2(Len(s1.s), Len(s2.s)))
    THEN Round(MaxOf(<<base * 10000,
                       _partial_ratio(s1.s, s2.s, options) * 9000,
                       partial_token_sort_ratio(s1, s2, options)
                         * unbase_scale * 90,
                       partial_token_set_ratio(s1, s2, options)
                         * unbase_scale * 90>>), 10000)
    ELSE Round(MaxOf(<<base * 10000,
                       token_sort_ratio(s1, s2, options) * unbase_scale * 100,
                       token_set_ratio(s1, s2, options) * unbase_scale * 100>>),
               10000)

\* The weighted maximum, from the base ratio of the validated operands.
Weighted(s1, s2, options, base) ==
    LET lmax == Max2(Len(s1.s), Len(s2.s))
        lmin == Min2(Len(s1.s), Len(s2.s))
        \* len_ratio = lmax / lmin
        try_partial == ~(2 * lmax < 3 * lmin)
        partial_scale == IF lmax > 8 * lmin THEN 60 ELSE 90
    IN IF try_partial
       THEN LET partial == _partial_ratio(s1.s, s2.s, options)
                           * partial_scale * 100
                ptsor == partial_token_sort_ratio(s1, s2, options)
                         * unbase_scale * partial_scale
                ptser == partial_token_set_ratio(s1, s2, options)
                         * unbase_scale * partial_scale
            IN Round(MaxOf(<<base * 10000, partial, ptsor, ptser>>), 10000)
       ELSE LET tsor == token_sort_ratio(s1, s2, options)
                        * unbase_scale * 100
                tser == token_set_ratio(s1, s2, options)
                        * unbase_scale * 100
            IN Round(MaxOf(<<base * 10000, tsor, tser>>), 10000)

WRatio(str1, str2, options_p) ==
    LET opts == _clone_and_set_option_defaults(options_p)
        s1 == Preprocess(str1, opts)
        s2 == Preprocess(str2, opts)
        options == [opts EXCEPT !.full_process = FALSE]
    IN IF ~_validate(s1) THEN 0
       ELSE IF ~_validate(s2) THEN 0
       ELSE Weighted(s1, s2, options, _ratio(s1.s, s2.s, options))

(***************************************************************************)
(* extract.  A candidate is a string, a value that is not a string, or an  *)
(* object; an object holds the string a processor reads (s) and may hold   *)
(* its precomputed proc_sorted and tokens.  The collection of candidates   *)
(* is an array (the keys are the indexes, from 0) or an object (the keys   *)
(* are its own, in the order _forEach visits them).  An entry of the       *)
(* result is <<candidate, score, key>>.                                    *)
(***************************************************************************)
MaxChoices == 3

\* The calls of extractAsync under way at a time, and the calls in a row.
MaxCalls == 2

Obj(s) == [t |-> "object", s |-> s]

ObjPre(s) ==
    [t |-> "object", s |-> s, proc_sorted |-> Some(process_and_sort(s)),
     tokens |-> Some(tokenize(s))]

Field(v, k) == IF k \in DOMAIN v THEN v[k] ELSE Undefined

\* The characters of a value that is a string, none otherwise.
ToS(v) == IF v.t = "string" THEN v.s ELSE << >>

ArrayOf(values) ==
    [isArray |-> TRUE, keys |-> [i \in DOMAIN values |-> i - 1] \o << >>,
     values |-> values]

\* The keys "k<n-1>", ..., "k0" of an object of n candidates.
ObjectOf(values) ==
    [isArray |-> FALSE,
     keys |-> [i \in DOMAIN values |-> Str(<<107, 48 + Len(values) - i>>)] \o << >>,
     values |-> values]

(***************************************************************************)
(* heap: Heap.nlargest(array, n, cmp) with cmp(a, b) = a[1] - b[1], the    *)
(* library's binary min-heap (positions from 0).  The last step of         *)
(* nlargest, sort(cmp).reverse(), is taken in extract.                     *)
(***************************************************************************)
At(array, pos) == array[pos + 1]
Put(array, pos, x) == [array EXCEPT ![pos + 1] = x]

\* cmp(x, y) < 0
Less(x, y) == x[2] < y[2]

RECURSIVE SiftDownLoop(_, _, _, _)
SiftDownLoop(array, startpos, pos, newitem) ==
    LET parentpos == (pos - 1) \div 2
    IN IF pos > startpos /\ Less(newitem, At(array, parentpos))
       THEN SiftDownLoop(Put(array, pos, At(array, parentpos)), startpos,
                         parentpos, newitem)
       ELSE Put(array, pos, newitem)

_siftdown(array, startpos, pos) ==
    SiftDownLoop(array, startpos, pos, At(array, pos))

\* The loop of _siftup: the smaller child moves up until a leaf is reached;
\* the array and the leaf's position.
RECURSIVE SiftUpLoop(_, _)
SiftUpLoop(array, pos) ==
    LET endpos == Len(array)
        leftpos == 2 * pos + 1
        rightpos == leftpos + 1
        childpos == IF rightpos < endpos
                       /\ ~Less(At(array, leftpos), At(array, rightpos))
                    THEN rightpos ELSE leftpos
    IN IF leftpos < endpos
       THEN SiftUpLoop(Put(array, pos, At(array, childpos)), childpos)
       ELSE <<array, pos>>

_siftup(array, pos) ==
    LET newitem == At(array, pos)
        leaf == SiftUpLoop(array, pos)
    IN _siftdown(Put(leaf[1], leaf[2], newitem), pos, leaf[2])

RECURSIVE HeapifyFrom(_, _)
HeapifyFrom(array, i) ==
    IF i < 0 THEN array ELSE HeapifyFrom(_siftup(array, i), i - 1)

heapify(array) == HeapifyFrom(array, Len(array) \div 2 - 1)

\* The heap after heappushpop(array, item); nlargest drops the popped item.
heappushpop(array, item) ==
    IF Len(array) > 0 /\ Less(At(array, 0), item)
    THEN _siftup(Put(array, 0, item), 0)
    ELSE array

RECURSIVE PushPopAll(_, _)
PushPopAll(heap, rest) ==
    IF rest = << >> THEN heap
    ELSE PushPopAll(heappushpop(heap, Head(rest)), Tail(rest))

nlargest(array, n) ==
    LET result == SubSeq(array, 1, Min2(n, Len(array)))
    IN IF result = << >> THEN result
       ELSE PushPopAll(heapify(result), SubSeq(array, n + 1, Len(array)))

\* Array.prototype.sort by descending score: every order of the entries in
\* which no score is followed by a higher one (the order of entries with
\* equal scores is the engine's).
SortDescending(entries) ==
    LET n == Len(entries)
        orders == {p \in [1..n -> 1..n] :
                     /\ \A i, j \in 1..n : p[i] = p[j] => i = j
                     /\ \A i \in 1..(n - 1) :
                          entries[p[i]][2] >= entries[p[i + 1]][2]}
    IN {[i \in 1..n |-> entries[p[i]]] \o << >> : p \in orders}

(***************************************************************************)
(* The scorer and the processor of an extract call are named in the        *)
(* options: a scorer of the library by its function name, "custom" for a   *)
(* function of the caller, "notafunction" for a value that is no function. *)
(***************************************************************************)
BuiltinScorers ==
    {"QRatio", "partial_ratio", "token_set_ratio", "partial_token_set_ratio",
     "token_sort_ratio", "partial_token_sort_ratio", "WRatio", "distance"}

_isCustomFunc(scorer) == scorer \notin BuiltinScorers

\* The caller's scorer: 100 for equal operands, else ten times the length
\* of the choice when it is a string, else 0.
CustomScorer(s1, s2, options) ==
    IF s1 = s2 THEN 100
    ELSE IF s2.t = "string" THEN 10 * Len(s2.s)
    ELSE 0

\* options.scorer(s1, s2, options)
ApplyScorer(scorer, s1, s2, options) ==
    CASE scorer = "QRatio" -> QRatio(s1, s2, options)
      [] scorer = "partial_ratio" -> partial_ratio(s1, s2, options)
      [] scorer = "token_set_ratio" -> token_set_ratio(s1, s2, options)
      [] scorer = "partial_token_set_ratio" ->
             partial_token_set_ratio(s1, s2, options)
      [] scorer = "token_sort_ratio" -> token_sort_ratio(s1, s2, options)
      [] scorer = "partial_token_sort_ratio" ->
             partial_token_sort_ratio(s1, s2, options)
      [] scorer = "WRatio" -> WRatio(s1, s2, options)
      [] scorer = "distance" -> distance(s1, s2, options)
      [] OTHER -> CustomScorer(s1, s2, options)

\* options.processor(value): the identity when none is given, else the
\* caller's function, which reads the string of an object.
ApplyProcessor(processor, value) ==
    IF processor = "identity" THEN value
    ELSE IF value.t = "object" THEN Str(value.s)
    ELSE NotAString

\* pre_processor is full_process when options.full_process held at the
\* start of the call, the identity otherwise.
pre_processor(choice, options) == Preprocess(choice, options)

\* The query is handed on as it is where its sorted form is expected.
ExtractContext_unsorted(query_p, options_p) ==
    LET opts == _clone_and_set_option_defaults(options_p)
        scorer == Get(options_p, "scorer", "QRatio")
        tsort == scorer \in {"token_sort_ratio", "partial_token_sort_ratio"}
        tset == ~tsort /\ scorer \in {"token_set_ratio", "partial_token_set_ratio"}
    IN [opts |-> opts,
        options |-> [opts EXCEPT !.full_process = FALSE],
        scorer |-> scorer,
        processor |-> Get(options_p, "processor", "identity"),
        isCustom |-> _isCustomFunc(scorer),
        cutoff |-> -1,
        query |-> pre_processor(query_p, opts),
        tsort |-> tsort,
        proc_sorted_query |-> ToS(pre_processor(query_p, opts)),
        tset |-> tset,
        query_tokens |-> IF tset THEN tokenize(ToS(pre_processor(query_p, opts)))
                         ELSE << >>]

\* What extract fixes before it visits the candidates: the options, the
\* processed query and its precomputed forms.
ExtractContext(query_p, options_p) ==
    LET opts == _clone_and_set_option_defaults(options_p)
        scorer == Get(options_p, "scorer", "QRatio")
        isCustom == _isCustomFunc(scorer)
        query == IF isCustom THEN query_p ELSE pre_processor(query_p, opts)
        tsort == scorer \in {"token_sort_ratio", "partial_token_sort_ratio"}
        tset == ~tsort /\ scorer \in {"token_set_ratio", "partial_token_set_ratio"}
    IN [opts |-> opts,
        options |-> IF isCustom THEN opts ELSE [opts EXCEPT !.full_process = FALSE],
        scorer |-> scorer,
        processor |-> Get(options_p, "processor", "identity"),
        isCustom |-> isCustom,
        cutoff |-> IF Get(options_p, "cutoff", 0) = 0 THEN -1
                   ELSE options_p.cutoff,
        query |-> query,
        tsort |-> tsort,
        proc_sorted_query |-> IF tsort THEN process_and_sort(ToS(query)) ELSE << >>,
        tset |-> tset,
        query_tokens |-> IF tset THEN tokenize(ToS(query)) ELSE << >>]

\* The arguments of a scorer call that leave the query to the scorer.
ScorerArguments_unprepared(value, c) ==
    <<c.query, pre_processor(ApplyProcessor(c.processor, value), c.opts),
      c.options>>

\* The operands and options the scorer is called with for one candidate.
ScorerArguments(value, c) ==
    LET processed == pre_processor(ApplyProcessor(c.processor, value), c.opts)
    IN IF c.tsort
       THEN LET given == Field(value, "proc_sorted")
                mychoice == IF given # Undefined /\ given[1] # << >>
                            THEN given[1]
                            ELSE process_and_sort(ToS(processed))
            IN <<Str(c.proc_sorted_query), Str(mychoice),
                 [c.options EXCEPT !.proc_sorted = TRUE]>>
       ELSE IF c.tset
       THEN LET given == Field(value, "tokens")
                mychoice == IF given # Undefined THEN Str(<<120>>)
                            ELSE processed
                tokens == IF given # Undefined
                          THEN <<c.query_tokens, given[1]>>
                          ELSE <<c.query_tokens, tokenize(ToS(mychoice))>>
            IN <<c.query, mychoice, [c.options EXCEPT !.tokens = Some(tokens)]>>
       ELSE IF c.isCustom
       THEN <<c.query, ApplyProcessor(c.processor, value), c.options>>
       ELSE <<c.query, processed, c.options>>

\* options.scorer(...) on those.
CallScorer(scorer, arguments) ==
    ApplyScorer(scorer, arguments[1], arguments[2], arguments[3])

\* The body of the loop over the candidates: the score of one candidate.
ScoreChoice(value, c) == CallScorer(c.scorer, ScorerArguments(value, c))

\* if (result > options.cutoff) results.push([value, result, key])
Pushed(value, result, key, cutoff) ==
    IF result > cutoff THEN <<<<value, result, key>>>> ELSE << >>

\* The loop pushing the processed form of the candidate, not the candidate.
RECURSIVE Retained_processed(_, _, _)
Retained_processed(choices, c, i) ==
    IF i > Len(choices.values) THEN << >>
    ELSE Pushed(pre_processor(ApplyProcessor(c.processor, choices.values[i]),
                              c.opts),
                ScoreChoice(choices.values[i], c), choices.keys[i], c.cutoff)
         \o Retained_processed(choices, c, i + 1)

\* results after the loop: the entries pushed, in the order of the visit.
RECURSIVE Retained(_, _, _)
Retained(choices, c, i) ==
    IF i > Len(choices.values) THEN << >>
    ELSE Pushed(choices.values[i], ScoreChoice(choices.values[i], c),
                choices.keys[i], c.cutoff)
         \o Retained(choices, c, i + 1)

\* The top limit entries by the first limit entries of results.
Selected_first(entries, numchoices, limit, unsorted) ==
    IF limit # 0 /\ limit > 0 /\ limit < numchoices /\ ~unsorted
    THEN SortDescending(SubSeq(entries, 1, Min2(limit, Len(entries))))
    ELSE IF ~unsorted THEN SortDescending(entries)
    ELSE {entries}

\* The arrays extract can return from results: the limit highest when a
\* limit applies, else all of them, sorted unless unsorted is set.
Selected(entries, numchoices, limit, unsorted) ==
    IF limit # 0 /\ limit > 0 /\ limit < numchoices /\ ~unsorted
    THEN SortDescending(nlargest(entries, limit))
    ELSE IF ~unsorted THEN SortDescending(entries)
    ELSE {entries}

\* The outcomes of extract(query, choices, options_p): the error thrown, or
\* the arrays the call can return.
extract(query_p, choices_p, options_p) ==
    IF Len(choices_p.values) = 0 THEN {[throw |-> "No choices"]}
    ELSE IF Get(options_p, "processor", "identity") = "notafunction"
    THEN {[throw |-> "Invalid Processor"]}
    ELSE IF Get(options_p, "scorer", "QRatio") = "notafunction"
    THEN {[throw |-> "Invalid Scorer"]}
    ELSE {[results |-> r] :
            r \in Selected(Retained(choices_p,
                                    ExtractContext(query_p, options_p), 1),
                           Len(choices_p.values),
                           Get(options_p, "limit", 0),
                           Get(options_p, "unsorted", FALSE))}

(***************************************************************************)
(* The work on the query.  extract and extractAsync sort or tokenize the   *)
(* query before the scan when the scorer is a token sort or a token set    *)
(* scorer; a scorer sorts its first operand unless options.proc_sorted is  *)
(* set and tokenizes it unless options.tokens is given.                    *)
(***************************************************************************)
\* process_and_sort(query) or tokenize(query) before the scan.
Precomputed(c) == IF c.tsort \/ c.tset THEN 1 ELSE 0

\* The operands of a scorer call pass the validation of the scorer.
BothValid(arguments) ==
    /\ _validate(Preprocess(arguments[1], arguments[3]))
    /\ _validate(Preprocess(arguments[2], arguments[3]))

\* The times one scorer call sorts or tokenizes its first operand.
Reprocessed(scorer, arguments) ==
    IF ~BothValid(arguments) THEN 0
    ELSE IF scorer \in {"token_sort_ratio", "partial_token_sort_ratio"}
    THEN (IF arguments[3].proc_sorted THEN 0 ELSE 1)
    ELSE IF scorer \in {"token_set_ratio", "partial_token_set_ratio"}
    THEN (IF arguments[3].tokens # Undefined THEN 0 ELSE 1)
    ELSE IF scorer = "WRatio" THEN 2
    ELSE 0

\* The work of the loop of extract from candidate i on.
RECURSIVE ScanWork(_, _, _)
ScanWork(choices, c, i) ==
    IF i > Len(choices.values) THEN 0
    ELSE Reprocessed(c.scorer, ScorerArguments(choices.values[i], c))
         + ScanWork(choices, c, i + 1)

\* The work on the query of a call of extract that returns.
extractWork(choices_p, c) == Precomputed(c) + ScanWork(choices_p, c, 1)

(***************************************************************************)
(* extractAsync(query, choices, options_p, callback).  A call is a record: *)
(* its arguments, pc (where it stands), c (what it fixed before the scan), *)
(* i (the position of the candidate searchLoop visits next), results, the  *)
(* positions scored so far, the error thrown, the arguments of every       *)
(* invocation of callback, and the work on the query.                      *)
(***************************************************************************)
\* A collection that is null or undefined.
Missing ==
    [isArray |-> FALSE, keys |-> << >>, values |-> << >>, missing |-> TRUE]

IsMissing(choices_p) == "missing" \in DOMAIN choices_p

NewCall(query_p, choices_p, options_p) ==
    [pc |-> "idle", query |-> query_p, choices |-> choices_p,
     options_p |-> options_p, c |-> [scorer |-> "none"], i |-> 0,
     results |-> << >>, scored |-> << >>, thrown |-> "",
     callbacks |-> << >>, work |-> 0]

\* callback(err, results): the call is over.
Callback(call, arguments) ==
    [call EXCEPT !.pc = "done", !.callbacks = Append(@, arguments)]

\* The call up to the first searchLoop: Object.keys(choices) throws for a
\* missing collection; an error goes to callback; else the scan is set up.
Started(call) ==
    IF IsMissing(call.choices)
    THEN [call EXCEPT !.pc = "threw", !.thrown = "TypeError"]
    ELSE IF Len(call.choices.values) = 0
    THEN Callback(call, [err |-> "No choices"])
    ELSE IF Get(call.options_p, "processor", "identity") = "notafunction"
    THEN Callback(call, [err |-> "Invalid Processor"])
    ELSE IF Get(call.options_p, "scorer", "QRatio") = "notafunction"
    THEN Callback(call, [err |-> "Invalid Scorer"])
    ELSE [call EXCEPT !.pc = "scanning",
                      !.c = ExtractContext(call.query, call.options_p),
                      !.i = 1,
                      !.work = Precomputed(ExtractContext(call.query,
                                                          call.options_p))]

\* The candidate at position i is scored, and pushed when above the cutoff.
Visited(call, value, arguments) ==
    [call EXCEPT
       !.results = @ \o Pushed(value, CallScorer(call.c.scorer, arguments),
                               call.choices.keys[call.i], call.c.cutoff),
       !.scored = Append(@, call.i),
       !.work = @ + Reprocessed(call.c.scorer, arguments)]

\* results go to callback as they are.
Delivered_unsorted(call) ==
    {Callback(call, [err |-> "null", results |-> call.results])}

\* After the last candidate: results are cut and sorted and go to callback.
Delivered(call) ==
    {Callback(call, [err |-> "null", results |-> r]) :
       r \in Selected(call.results, Len(call.choices.values),
                      Get(call.options_p, "limit", 0),
                      Get(call.options_p, "unsorted", FALSE))}

\* The end comes one candidate early.
Continued_early(call) ==
    IF call.i + 1 < Len(call.choices.values)
    THEN {[call EXCEPT !.i = @ + 1]}
    ELSE Delivered(call)

\* setImmediate(searchLoop(next)) while candidates are left, else the end.
Continued(call) ==
    IF call.i < Len(call.choices.values)
    THEN {[call EXCEPT !.i = @ + 1]}
    ELSE Delivered(call)

\* searchLoop(c, i): one candidate, then the next turn or the callback.
searchLoop(call) ==
    Continued(Visited(call, call.choices.values[call.i],
                      ScorerArguments(call.choices.values[call.i], call.c)))

\* The first searchLoop runs inside the call of extractAsync.
FirstLoop(call) == IF call.pc = "scanning" THEN searchLoop(call) ELSE {call}

extractAsync(call) == FirstLoop(Started(call))

\* The call run to its end with no other call about.
RECURSIVE RunAlone(_)
RunAlone(call) ==
    IF call.pc = "scanning" THEN UNION {RunAlone(n) : n \in searchLoop(call)}
    ELSE {call}

\* A turn in which results is one array of the module, shared by the calls.
Turn_shared(cs, k) ==
    {[j \in DOMAIN cs |->
        IF j = k THEN n ELSE [cs[j] EXCEPT !.results = n.results]] \o << >> :
       n \in searchLoop(cs[k])}

\* A turn of the host: the searchLoop one call scheduled runs.
Turn(cs, k) == {[cs EXCEPT ![k] = n] : n \in searchLoop(cs[k])}

(***************************************************************************)
(* State.  str1, str2 and options_p are the arguments of a scorer call,    *)
(* query, choices and options_p those of an extract call; op names the     *)
(* function that returned last and ret is what it returned.  calls are the *)
(* calls of extractAsync made so far.                                      *)
(* supported tells whether the environment has String.prototype.normalize, *)
(* normalWarn is the flag of the module, advisories counts the lines       *)
(* "Normalization not supported in your environment" on the console, and   *)
(* made the calls the caller has set up.                                   *)
(***************************************************************************)
VARIABLES str1, str2, query, choices, options_p, op, ret, calls, supported,
          normalWarn, advisories, made

vars == <<str1, str2, query, choices, options_p, op, ret, calls, supported,
          normalWarn, advisories, made>>

\* A fresh module in an environment that can normalize; no call was made.
Fresh ==
    /\ normalWarn = FALSE
    /\ advisories = 0
    /\ made = 1

Values == {Str(s) : s \in Strings} \cup {NotAString}

NoOptions == [k \in {} |-> TRUE]

ScoreOptions ==
    {NoOptions, [full_process |-> FALSE], [subcost |-> Some(1)],
     [subcost |-> Some(3)], [ratio_alg |-> "difflib"], [trySimple |-> TRUE]}

(***************************************************************************)
(* A long pair: "xxxx" and a haystack of AutojunkMin characters that holds *)
(* it, "y" "xxxx" "y...y".                                                 *)
(***************************************************************************)
Repeat(c, n) == [i \in 1..n |-> c] \o << >>
Needle == Repeat(120, 4)
Haystack == <<121>> \o Needle \o Repeat(121, AutojunkMin - 5)
LongPairs == {<<Str(Needle), Str(Haystack)>>}

\* A scorer is about to be called on a pair of operands drawn from pairs.
ScorerInitOver(pairs) ==
    /\ \E p \in pairs : str1 = p[1] /\ str2 = p[2]
    /\ options_p \in ScoreOptions
    /\ query = NotAString
    /\ choices = << >>
    /\ op = "none"
    /\ ret = 0
    /\ calls = << >>
    /\ supported = TRUE
    /\ Fresh

\* ratio reaches the normalization of _ratio: the operands are valid, the
\* edit distance is taken over code points and normalize is set.
RatioNormalizes(s1, s2, o) ==
    /\ _validate(Preprocess(s1, _clone_and_set_option_defaults(o)))
    /\ _validate(Preprocess(s2, _clone_and_set_option_defaults(o)))
    /\ _clone_and_set_option_defaults(o).ratio_alg # "difflib"
    /\ _clone_and_set_option_defaults(o).astral
    /\ Get(o, "normalize", FALSE)

\* The advisory of _ratio, which normalWarn guards.
GuardedAdvisory(reached) ==
    IF reached /\ ~supported /\ ~normalWarn
    THEN normalWarn' = TRUE /\ advisories' = advisories + 1
    ELSE UNCHANGED <<normalWarn, advisories>>

\* The advisory of extract and extractAsync.
Advisory(reached) ==
    /\ advisories' = IF reached /\ ~supported THEN advisories + 1
                     ELSE advisories
    /\ UNCHANGED normalWarn

\* A scorer returns.  Of the scorers, ratio is called with normalize set.
Returns(name, value) ==
    /\ op = "none"
    /\ op' = name
    /\ ret' = value
    /\ GuardedAdvisory(name = "ratio" /\ RatioNormalizes(str1, str2, options_p))
    /\ UNCHANGED <<str1, str2, query, choices, options_p, calls, supported,
                   made>>

Call_distance == Returns("distance", distance(str1, str2, options_p))
Call_ratio == Returns("ratio", QRatio(str1, str2, options_p))
Call_partial_ratio ==
    Returns("partial_ratio", partial_ratio(str1, str2, options_p))
Call_token_set_ratio ==
    Returns("token_set_ratio", token_set_ratio(str1, str2, options_p))
Call_partial_token_set_ratio ==
    Returns("partial_token_set_ratio",
            partial_token_set_ratio(str1, str2, options_p))
Call_token_sort_ratio ==
    Returns("token_sort_ratio", token_sort_ratio(str1, str2, options_p))
Call_partial_token_sort_ratio ==
    Returns("partial_token_sort_ratio",
            partial_token_sort_ratio(str1, str2, options_p))
Call_WRatio == Returns("WRatio", WRatio(str1, str2, options_p))

ScorerNext ==
    \/ Call_distance
    \/ Call_ratio
    \/ Call_partial_ratio
    \/ Call_token_set_ratio
    \/ Call_partial_token_set_ratio
    \/ Call_token_sort_ratio
    \/ Call_partial_token_sort_ratio
    \/ Call_WRatio

ScorerInit == ScorerInitOver(Values \X Values)

\* The long pair is among the operands of the ratio and partial ratio.
ScorerInitLong == ScorerInitOver((Values \X Values) \cup LongPairs)

Spec == ScorerInit /\ [][ScorerNext]_vars

SpecRatio == ScorerInitLong /\ [][Call_distance \/ Call_ratio]_vars

\* Pairs of lengths 1 and 8, and 1 and 10: "a" with "ab ab ab" and with
\* "ab ab ab a".
WidePairs ==
    {<<Str(<<97>>), Str(<<97, 98, 32, 97, 98, 32, 97, 98>>)>>,
     <<Str(<<97, 98, 32, 97, 98, 32, 97, 98, 32, 97>>), Str(<<97>>)>>}

SpecWRatio ==
    ScorerInitOver((Values \X Values) \cup WidePairs)
    /\ [][Call_ratio \/ Call_WRatio]_vars

SpecPartial == ScorerInitLong /\ [][Call_ratio \/ Call_partial_ratio]_vars

SpecTokenSet ==
    ScorerInit /\ [][Call_token_set_ratio \/ Call_partial_token_set_ratio]_vars

(***************************************************************************)
(* Calls of extract: the candidates, the queries and the options drawn.    *)
(***************************************************************************)
Candidates ==
    {Str(<<97>>), Str(<<97, 98>>), Str(<< >>), Obj(<<98, 32, 97>>),
     ObjPre(<<98, 32, 97>>)}

Queries == {Str(<<97>>), Str(<<97, 32, 98>>), Str(<< >>), NotAString}

RECURSIVE SeqsOfLen(_, _)
SeqsOfLen(S, n) ==
    IF n = 0 THEN {<< >>}
    ELSE {Append(s, x) : s \in SeqsOfLen(S, n - 1), x \in S}

ChoiceLists == UNION {SeqsOfLen(Candidates, n) : n \in 0..MaxChoices}

Merge(f, g) ==
    [k \in DOMAIN f \cup DOMAIN g |-> IF k \in DOMAIN g THEN g[k] ELSE f[k]]

\* How the candidates are scored.
ScoringOptions ==
    {NoOptions, [full_process |-> FALSE], [scorer |-> "token_sort_ratio"],
     [scorer |-> "token_set_ratio"], [scorer |-> "WRatio"],
     [scorer |-> "custom", processor |-> "field"]}

\* How the scored candidates are selected.
SelectionOptions ==
    {Merge(cut, lim) :
        cut \in {NoOptions, [cutoff |-> 0], [cutoff |-> 50]},
        lim \in {NoOptions, [limit |-> 0], [limit |-> 1], [limit |-> 2],
                 [unsorted |-> TRUE], [limit |-> 1, unsorted |-> TRUE]}}

ExtractOptions ==
    {Merge(sc, sel) : sc \in ScoringOptions, sel \in SelectionOptions}
    \cup {[scorer |-> "notafunction"], [processor |-> "notafunction"]}

\* The collections: arrays, objects, and null.
Collections ==
    {ArrayOf(values) : values \in ChoiceLists}
    \cup {ObjectOf(values) : values \in ChoiceLists}
    \cup {Missing}

ExtractInit ==
    /\ query \in Queries
    /\ choices \in Collections
    /\ options_p \in ExtractOptions
    /\ str1 = NotAString
    /\ str2 = NotAString
    /\ op = "none"
    /\ ret = 0
    /\ calls = << >>
    /\ supported = TRUE
    /\ Fresh

\* extract or extractAsync reaches its normalization: the scorer is of the
\* library, astral and normalize are set.
ExtractNormalizes(o) ==
    /\ ~_isCustomFunc(Get(o, "scorer", "QRatio"))
    /\ Get(o, "astral", FALSE)
    /\ Get(o, "normalize", FALSE)

\* A call of extract returns one of its arrays, or throws.
Call_extract ==
    /\ op = "none"
    /\ \E out \in extract(query, choices, options_p) :
          IF "throw" \in DOMAIN out
          THEN /\ op' = "extract throws"
               /\ ret' = out.throw
               /\ UNCHANGED <<advisories, normalWarn>>
          ELSE /\ op' = "extract"
               /\ ret' = out.results
               /\ Advisory(ExtractNormalizes(options_p))
    /\ UNCHANGED <<str1, str2, query, choices, options_p, calls, supported,
                   made>>

SpecExtract == ExtractInit /\ [][Call_extract]_vars

(***************************************************************************)
(* Calls of extract with each scorer of the library on strings: "b a",     *)
(* "a" and "" for the query, "a b", "a" and "" for the candidates.         *)
(***************************************************************************)
ShortcutOptions ==
    {Merge([scorer |-> s], o) :
       s \in BuiltinScorers \ {"distance"},
       o \in {NoOptions, [full_process |-> FALSE]}}
    \cup {[scorer |-> "token_set_ratio", trySimple |-> TRUE]}

ShortcutInit ==
    /\ query \in {Str(<<98, 32, 97>>), Str(<<97>>), Str(<< >>)}
    /\ \E n \in 1..MaxChoices :
          \E values \in SeqsOfLen({Str(<<97, 32, 98>>), Str(<<97>>),
                                   Str(<< >>)}, n) :
             choices \in {ArrayOf(values), ObjectOf(values)}
    /\ options_p \in ShortcutOptions
    /\ str1 = NotAString
    /\ str2 = NotAString
    /\ op = "none"
    /\ ret = 0
    /\ calls = << >>
    /\ supported = TRUE
    /\ Fresh

SpecShortcut == ShortcutInit /\ [][Call_extract]_vars

(***************************************************************************)
(* Calls of extractAsync.  The call runs up to the end of its first        *)
(* searchLoop; every later searchLoop is a turn of the host.               *)
(***************************************************************************)
\* The candidates and the collections of the calls below.
AsyncCandidates ==
    {Str(<<97>>), Str(<<97, 98>>), Str(<< >>), ObjPre(<<98, 32, 97>>)}

AsyncCollections ==
    LET lists == UNION {SeqsOfLen(AsyncCandidates, n) : n \in 0..MaxChoices}
    IN {ArrayOf(values) : values \in lists}
       \cup {ObjectOf(values) : values \in lists}
       \cup {Missing}

\* How the scored candidates of the calls below are selected.
AsyncSelection ==
    {Merge(cut, lim) :
        cut \in {NoOptions, [cutoff |-> 50]},
        lim \in {NoOptions, [limit |-> 1], [unsorted |-> TRUE]}}

AsyncOptions ==
    {Merge(sc, sel) : sc \in ScoringOptions, sel \in AsyncSelection}
    \cup {[scorer |-> "notafunction"], [processor |-> "notafunction"]}

\* extractAsync is about to be called on query, choices and options_p.
AsyncInit ==
    /\ query \in Queries
    /\ choices \in AsyncCollections
    /\ options_p \in AsyncOptions
    /\ calls = <<NewCall(query, choices, options_p)>>
    /\ str1 = NotAString
    /\ str2 = NotAString
    /\ op = "none"
    /\ ret = 0
    /\ supported = TRUE
    /\ Fresh

Call_extractAsync ==
    /\ \E k \in DOMAIN calls :
          /\ calls[k].pc = "idle"
          /\ \E n \in extractAsync(calls[k]) :
                /\ calls' = [calls EXCEPT ![k] = n]
                /\ Advisory(n.c.scorer # "none"
                            /\ ExtractNormalizes(calls[k].options_p))
    /\ UNCHANGED <<str1, str2, query, choices, options_p, op, ret,
                   supported, made>>

HostTurn ==
    /\ \E k \in DOMAIN calls :
          /\ calls[k].pc = "scanning"
          /\ calls' \in Turn(calls, k)
    /\ UNCHANGED <<str1, str2, query, choices, options_p, op, ret,
                   supported, normalWarn, advisories, made>>

SpecAsync == AsyncInit /\ [][Call_extractAsync \/ HostTurn]_vars

\* A function handed to setImmediate waits for its turn.
TurnPending == \E k \in DOMAIN calls : calls[k].pc = "scanning"

\* The host runs every function handed to setImmediate: WF_vars(HostTurn),
\* written out.  A turn is enabled exactly when a function waits for one,
\* so ENABLED <<HostTurn>>_vars is TurnPending, and WF_vars(HostTurn) says
\* that either no function waits infinitely often or turns are taken
\* infinitely often.
FairAsync == SpecAsync /\ ([]<>~TurnPending \/ []<><<HostTurn>>_vars)

(***************************************************************************)
(* The scorer claims.  Opts is the options of the call, Pre1 and Pre2 its  *)
(* operands after preprocessing.                                           *)
(***************************************************************************)
Opts == _clone_and_set_option_defaults(options_p)
Pre1 == Preprocess(str1, Opts)
Pre2 == Preprocess(str2, Opts)

RatioFamily ==
    {"ratio", "partial_ratio", "token_sort_ratio", "partial_token_sort_ratio",
     "token_set_ratio", "partial_token_set_ratio", "WRatio"}

\* C1 as stated: for every string s, ratio(s, s) is 100 and distance(s, s)
\* is 0.
C1_AllStrings ==
    (str1 = str2 /\ str1.t = "string") =>
        /\ op = "ratio" => ret = 100
        /\ op = "distance" => ret = 0

\* C1 amended: for every string s that is not empty after preprocessing,
\* ratio(s, s) is 100; for every string s, distance(s, s) is 0.
C1_Identity ==
    (str1 = str2 /\ str1.t = "string") =>
        /\ (op = "ratio" /\ _validate(Pre1)) => ret = 100
        /\ op = "distance" => ret = 0

C1_Witness ==
    op = "ratio" /\ str1 = Str(<<97, 32, 98>>) /\ str2 = str1 /\ ret = 100

\* C2: a ratio-family scorer returns 0 when an operand is empty or not a
\* string after preprocessing.
C2_ValidationShortCircuit ==
    (op \in RatioFamily /\ (~_validate(Pre1) \/ ~_validate(Pre2))) => ret = 0

C2_Witness ==
    /\ op = "WRatio"
    /\ str1 = Str(<<32, 32>>)
    /\ str2 = Str(<<97, 98>>)
    /\ ~_validate(Pre1)
    /\ ret = 0

C4_WRatioAtLeastQRatio ==
    op = "WRatio" => ret >= QRatio(str1, str2, options_p)

C4_Witness ==
    /\ op = "WRatio"
    /\ QRatio(str1, str2, options_p) > 0
    /\ ret > QRatio(str1, str2, options_p)

\* C16: with lenRatio the longer length over the shorter of the operands
\* after preprocessing, WRatio returns, when lenRatio >= 1.5, the rounded
\* maximum of ratio, partial_ratio * p, partial_token_sort_ratio * 0.95 * p
\* and partial_token_set_ratio * 0.95 * p, where p is 0.6 when lenRatio > 8
\* and 0.9 otherwise, and when lenRatio < 1.5 the rounded maximum of ratio,
\* token_sort_ratio * 0.95 and token_set_ratio * 0.95.
C16_WeightedMaximum ==
    (op = "WRatio" /\ _validate(Pre1) /\ _validate(Pre2)) =>
        LET lenA == Len(Pre1.s)
            lenB == Len(Pre2.s)
            longer == IF lenA > lenB THEN lenA ELSE lenB
            shorter == IF lenA > lenB THEN lenB ELSE lenA
            p == IF longer > 8 * shorter THEN 60 ELSE 90
        IN IF 10 * longer >= 15 * shorter
           THEN \E m \in {QRatio(str1, str2, options_p) * 10000,
                           partial_ratio(str1, str2, options_p) * p * 100,
                           partial_token_sort_ratio(str1, str2, options_p)
                             * 95 * p,
                           partial_token_set_ratio(str1, str2, options_p)
                             * 95 * p} :
                   /\ m >= QRatio(str1, str2, options_p) * 10000
                   /\ m >= partial_ratio(str1, str2, options_p) * p * 100
                   /\ m >= partial_token_sort_ratio(str1, str2, options_p)
                             * 95 * p
                   /\ m >= partial_token_set_ratio(str1, str2, options_p)
                             * 95 * p
                   /\ 2 * ret * 10000 <= 2 * m + 10000
                   /\ 2 * m + 10000 < 2 * (ret + 1) * 10000
           ELSE \E m \in {QRatio(str1, str2, options_p) * 100,
                           token_sort_ratio(str1, str2, options_p) * 95,
                           token_set_ratio(str1, str2, options_p) * 95} :
                   /\ m >= QRatio(str1, str2, options_p) * 100
                   /\ m >= token_sort_ratio(str1, str2, options_p) * 95
                   /\ m >= token_set_ratio(str1, str2, options_p) * 95
                   /\ 2 * ret * 100 <= 2 * m + 100
                   /\ 2 * m + 100 < 2 * (ret + 1) * 100

\* WRatio of "a" and "ab ab ab a", of lengths 1 and 10: the partial ratio
\* 100 scaled by 0.6.
C16_Witness ==
    /\ op = "WRatio"
    /\ Len(Pre1.s) > 8 * Len(Pre2.s)
    /\ _validate(Pre2)
    /\ partial_ratio(str1, str2, options_p) = 100
    /\ ret = 60

\* a is a contiguous substring of b.
IsSubstring(a, b) ==
    \E i \in 0..(Len(b) - Len(a)) : SubSeq(b, i + 1, i + Len(a)) = a

\* C5: partial_ratio(a, b) >= ratio(a, b) whenever a is a substring of b.
C5_PartialAtLeastRatio ==
    (/\ op = "partial_ratio"
     /\ str1.t = "string"
     /\ str2.t = "string"
     /\ IsSubstring(str1.s, str2.s)) => ret >= QRatio(str1, str2, options_p)

\* The token set of an operand after preprocessing.
TokenSet(v) == Range(tokenize(v.s))

\* C6: token_set_ratio is 100 when the token set of one string is not empty
\* and is a subset of the token set of the other (equal sets included).
C6_TokenSubset ==
    (/\ op = "token_set_ratio"
     /\ _validate(Pre1)
     /\ _validate(Pre2)
     /\ \/ TokenSet(Pre1) # {} /\ TokenSet(Pre1) \subseteq TokenSet(Pre2)
        \/ TokenSet(Pre2) # {} /\ TokenSet(Pre2) \subseteq TokenSet(Pre1))
    => ret = 100

C6_Witness ==
    /\ op = "token_set_ratio"
    /\ str1 = Str(<<97, 32, 98>>)
    /\ str2 = Str(<<98, 32, 97>>)
    /\ ret = 100

\* C7: every score of a ratio-family scorer is an integer from 0 to 100.
C7_ScoreRange == op \in RatioFamily => ret \in 0..100

C7_Witness == op = "partial_token_sort_ratio" /\ ret \in 1..99


(***************************************************************************)
(* The extract claims.  Scored is the score of every candidate of the      *)
(* call, by position; an entry of the result is <<candidate, score, key>>. *)
(***************************************************************************)
Scored ==
    [i \in DOMAIN choices.values |->
        ScoreChoice(choices.values[i], ExtractContext(query, options_p))]

Supplied(k) == k \in DOMAIN options_p

ReturnedKeys == {ret[i][3] : i \in DOMAIN ret}

\* The positions of the candidates that score above the cutoff x.
Above(x) == {i \in DOMAIN Scored : Scored[i] > x}

\* The positions of the candidates the call retained.
RetainedPositions == Above(ExtractContext(query, options_p).cutoff)

NonIncreasing ==
    \A i \in 1..(Len(ret) - 1) : ret[i][2] >= ret[i + 1][2]

\* No retained candidate that was left out scores higher than a returned one.
TopEntries ==
    \A i \in RetainedPositions : \A j \in DOMAIN ret :
        choices.keys[i] \notin ReturnedKeys => Scored[i] <= ret[j][2]

\* C8: a candidate is retained exactly when its score is strictly greater
\* than the cutoff: with a cutoff supplied (0 included) no returned entry
\* scores at or below it, and with no limit the returned candidates are
\* those that score above it; the cutoff is -1 when none is supplied.
C8_StrictlyAboveCutoff ==
    op = "extract" =>
        LET cutoff == IF Supplied("cutoff") THEN options_p.cutoff ELSE -1
        IN /\ \A i \in DOMAIN ret : ret[i][2] > cutoff
           /\ ~Supplied("limit") =>
                 ReturnedKeys = {choices.keys[i] : i \in Above(cutoff)}

C10_ReadsOnly ==
    [][op' = "extract" =>
         /\ choices' = choices
         /\ \A e \in DOMAIN ret' :
               \E i \in DOMAIN choices.values :
                   /\ ret'[e][3] = choices.keys[i]
                   /\ ret'[e][3] = IF choices.isArray THEN i - 1
                                   ELSE ObjectOf(choices.values).keys[i]
                   /\ ret'[e][1] = choices.values[i]
                   /\ ret'[e][2] = Scored[i]]_vars

\* An object of candidates whose processed form differs from the candidate.
C10_Witness ==
    /\ op = "extract"
    /\ ~choices.isArray
    /\ Len(ret) = 2
    /\ ret[1][1] = Obj(<<98, 32, 97>>)
    /\ ret[1][3] = Str(<<107, 48>>)
    /\ Get(options_p, "processor", "identity") = "field"


(***************************************************************************)
(* MaxCalls calls of extractAsync on inputs of their own, their turns      *)
(* taken in any order, and a call of ratio at any time between them.       *)
(***************************************************************************)
ReentrantInputs ==
    LET lists == {<<Str(<<97>>), Str(<<97, 98>>)>>,
                  <<Str(<<97, 98>>), Str(<<97>>)>>,
                  <<ObjPre(<<98, 32, 97>>), Str(<<97>>)>>}
    IN {NewCall(q, cs, o) :
          q \in {Str(<<97>>), Str(<<97, 32, 98>>)},
          cs \in {ArrayOf(values) : values \in lists}
                 \cup {ObjectOf(values) : values \in lists},
          o \in {NoOptions, [scorer |-> "token_sort_ratio"],
                 [scorer |-> "token_set_ratio"], [limit |-> 1]}}

ReentrantInit ==
    /\ calls \in [1..MaxCalls -> ReentrantInputs]
    /\ str1 = Str(<<97>>)
    /\ str2 = Str(<<97, 98>>)
    /\ options_p = NoOptions
    /\ query = NotAString
    /\ choices = << >>
    /\ op = "none"
    /\ ret = 0
    /\ supported = TRUE
    /\ Fresh

SpecReentrant ==
    ReentrantInit /\ [][Call_extractAsync \/ HostTurn \/ Call_ratio]_vars

(***************************************************************************)
(* Calls in a row, in an environment with or without                       *)
(* String.prototype.normalize: ratio, extract and extractAsync on strings, *)
(* with and without astral and normalize.  The caller sets up the next     *)
(* call with options of its choice, up to MaxCalls calls.                  *)
(***************************************************************************)
AdvisoryOptions ==
    {NoOptions, [astral |-> TRUE], [astral |-> TRUE, normalize |-> TRUE],
     [astral |-> TRUE, normalize |-> TRUE, scorer |-> "token_sort_ratio"]}

AdvisoryInit ==
    /\ str1 \in {Str(<<97>>), Str(<< >>)}
    /\ str2 = Str(<<97, 98>>)
    /\ query = Str(<<97>>)
    /\ choices \in {ArrayOf(<<Str(<<97>>), Str(<<97, 98>>)>>),
                    ObjectOf(<<Str(<<97, 98>>)>>)}
    /\ options_p \in AdvisoryOptions
    /\ calls = <<NewCall(query, choices, options_p)>>
    /\ op = "none"
    /\ ret = 0
    /\ supported \in BOOLEAN
    /\ Fresh

NextCall ==
    /\ made < MaxCalls
    /\ made' = made + 1
    /\ options_p' \in AdvisoryOptions
    /\ calls' = Append(calls, NewCall(query, choices, options_p'))
    /\ op' = "none"
    /\ ret' = 0
    /\ UNCHANGED <<str1, str2, query, choices, supported, normalWarn,
                   advisories>>

SpecAdvisory ==
    AdvisoryInit
    /\ [][Call_ratio \/ Call_extract \/ Call_extractAsync \/ HostTurn
            \/ NextCall]_vars

\* C18: with a scorer of the library, the score of every returned entry
\* whose candidate is a string is the score the scorer returns when it is
\* called on the query and the candidate with the options of the call;
\* so it is for operands that are empty after preprocessing.
C18_SameAsDirectCall ==
    (op = "extract" /\ ~_isCustomFunc(Get(options_p, "scorer", "QRatio"))) =>
        \A e \in DOMAIN ret :
           ret[e][1].t = "string" =>
              ret[e][2] = ApplyScorer(Get(options_p, "scorer", "QRatio"),
                                      query, ret[e][1], options_p)

\* token_sort_ratio without preprocessing: the query "b a" scores 100
\* against the candidate "a b" and 0 against the empty candidate.
C18_Witness ==
    /\ op = "extract"
    /\ Get(options_p, "scorer", "QRatio") = "token_sort_ratio"
    /\ query = Str(<<98, 32, 97>>)
    /\ \E e \in DOMAIN ret :
          ret[e][1] = Str(<<97, 32, 98>>) /\ ret[e][2] = 100
    /\ \E e \in DOMAIN ret : ret[e][1] = Str(<< >>) /\ ret[e][2] = 0

(***************************************************************************)
(* The claims on extractAsync.  Invalid tells the inputs extract and       *)
(* extractAsync reject.                                                    *)
(***************************************************************************)
Invalid(choices_p, o) ==
    \/ Len(choices_p.values) = 0
    \/ Get(o, "processor", "identity") = "notafunction"
    \/ Get(o, "scorer", "QRatio") = "notafunction"

\* C11: on an empty or missing collection, a processor or a scorer that is
\* no function, every outcome of extract is an error thrown, and
\* extractAsync, once called, has invoked callback once, with an error and
\* no results, without having scored a candidate.
C11_FailFast ==
    /\ Invalid(choices, options_p)
          => \A out \in extract(query, choices, options_p) :
                "throw" \in DOMAIN out
    /\ \A k \in DOMAIN calls :
          (calls[k].pc # "idle" /\ Invalid(calls[k].choices, calls[k].options_p))
            => /\ calls[k].pc = "done"
               /\ Len(calls[k].callbacks) = 1
               /\ calls[k].callbacks[1].err # "null"
               /\ "results" \notin DOMAIN calls[k].callbacks[1]
               /\ calls[k].scored = << >>

\* The calls of extractAsync whose callback received a list.
Completed ==
    {k \in DOMAIN calls :
       /\ calls[k].pc = "done"
       /\ "results" \in DOMAIN calls[k].callbacks[1]}

\* The list the callback of call k received.
Result(k) == calls[k].callbacks[1].results

\* The same entries with the same scores at the same places.
SameUpToTies(a, b) ==
    /\ Len(a) = Len(b)
    /\ \A i \in DOMAIN a : a[i][2] = b[i][2]
    /\ {a[i] : i \in DOMAIN a} = {b[i] : i \in DOMAIN b}

\* C12: the list extractAsync hands to callback is, up to the order of
\* entries with equal scores, every list extract can return for the same
\* query, collection and options, and extract does return a list then.
C12_SameAsExtract ==
    \A k \in Completed :
       \A out \in extract(calls[k].query, calls[k].choices, calls[k].options_p) :
          /\ "results" \in DOMAIN out
          /\ SameUpToTies(Result(k), out.results)

\* An object of three candidates was searched, and two entries with
\* different scores were delivered.
C12_Witness ==
    \E k \in Completed :
       /\ ~calls[k].choices.isArray
       /\ Len(calls[k].choices.values) = 3
       /\ Len(Result(k)) = 2
       /\ Result(k)[1][2] > Result(k)[2][2]

\* What callback receives when the call is the only one.
Alone(call) ==
    {f.callbacks :
       f \in UNION {RunAlone(n) :
                      n \in extractAsync(NewCall(call.query, call.choices,
                                                 call.options_p))}}

\* C13: whatever the order of the turns of the calls under way, and with a
\* scorer called in between, what a call has handed to its callback is
\* what it hands over when it runs alone; before its end it has handed
\* over nothing.
C13_Reentrant ==
    \A k \in DOMAIN calls :
       IF calls[k].pc = "done" THEN calls[k].callbacks \in Alone(calls[k])
       ELSE calls[k].callbacks = << >>

\* The first call has delivered entries while the second, with another
\* scorer, is between two of its turns, and ratio was called.
C13_Witness ==
    /\ 1 \in Completed
    /\ Len(Result(1)) = 2
    /\ calls[2].pc = "scanning"
    /\ calls[2].i = 2
    /\ calls[2].c.scorer # calls[1].c.scorer
    /\ op = "ratio"

\* C14: whether or not the environment can normalize, no call on valid
\* inputs fails, and over the calls of ratio, extract and extractAsync
\* made so far the advisory was logged at most once.
C14_AdvisoryOnce ==
    /\ op = "extract throws" => Invalid(choices, options_p)
    /\ \A k \in DOMAIN calls : calls[k].pc # "threw"
    /\ advisories <= 1

\* The calls of extractAsync that passed the tests of their arguments.
Scanned ==
    {k \in DOMAIN calls :
       /\ calls[k].pc \in {"scanning", "done"}
       /\ ~Invalid(calls[k].choices, calls[k].options_p)}

\* The candidates scored so far are the first ones, in the order of the
\* keys; callback was not invoked before the end, and at the end once,
\* with no error and entries of results, every candidate being scored.
InOrderThenOnce ==
    \A k \in Scanned :
       /\ calls[k].scored = [i \in 1..Len(calls[k].scored) |-> i]
       /\ Len(calls[k].scored) >= 1
       /\ IF calls[k].pc = "scanning"
          THEN /\ calls[k].callbacks = << >>
               /\ Len(calls[k].scored) < Len(calls[k].choices.values)
          ELSE /\ Len(calls[k].callbacks) = 1
               /\ calls[k].callbacks[1].err = "null"
               /\ Len(calls[k].scored) = Len(calls[k].choices.values)
               /\ \A i \in DOMAIN Result(k) :
                     \E j \in DOMAIN calls[k].results :
                        Result(k)[i] = calls[k].results[j]

\* A step scores at most one candidate of a call, and none of a call that
\* is over.
OnePerTurn ==
    \A k \in DOMAIN calls :
       /\ Len(calls'[k].scored) <= Len(calls[k].scored) + 1
       /\ calls[k].pc = "done" => calls'[k] = calls[k]

\* C15: on a collection that is not empty, with a processor and a scorer
\* that are functions, extractAsync scores the candidates in the order of
\* the keys, at most one in a step, and in the end invokes callback, once,
\* with no error and with entries of results, after the last candidate.
C15_OnePerTurnThenCallback ==
    /\ []InOrderThenOnce
    /\ [][OnePerTurn]_vars
    /\ \A k \in 1..MaxCalls :
          (k \in DOMAIN calls /\ calls[k].pc = "scanning")
             ~> (k \in DOMAIN calls /\ calls[k].pc = "done")

\* The three candidates of an object were scored in three steps and
\* callback received the entries.
C15_Witness ==
    \E k \in Completed :
       /\ ~calls[k].choices.isArray
       /\ calls[k].scored = <<1, 2, 3>>
       /\ Len(calls[k].callbacks) = 1
       /\ Len(Result(k)) = 3

\* The scorer is a token sort or a token set scorer of the library.
TokenScorers ==
    {"token_sort_ratio", "partial_token_sort_ratio", "token_set_ratio",
     "partial_token_set_ratio"}

\* C17: with a token sort or token set scorer, a call of extract that
\* returns sorts or tokenizes the query once in all, and a call of
\* extractAsync has done so once when its first candidate is scored and
\* not again at any later turn, whatever the number of candidates.
C17_QueryPreparedOnce ==
    (Get(options_p, "scorer", "QRatio") \in TokenScorers
     /\ ~Invalid(choices, options_p)) =>
        /\ extractWork(choices, ExtractContext(query, options_p)) = 1
        /\ \A k \in Scanned : calls[k].work = 1

\* Three candidates were scored with token_sort_ratio against a query of
\* two tokens, and the query was sorted once.
C17_Witness ==
    \E k \in Completed :
       /\ calls[k].c.scorer = "token_sort_ratio"
       /\ calls[k].c.proc_sorted_query = <<97, 32, 98>>
       /\ calls[k].scored = <<1, 2, 3>>
       /\ \E i \in DOMAIN Result(k) : Result(k)[i][2] > 0
       /\ calls[k].work = 1

====
